---- MODULE Spec2Model ----
(***************************************************************************)
(* State-machine model of linear-custom-import.js: the interactive setup   *)
(* gates of main(), the team resolution, the status/label lookup build,    *)
(* the CSV read and the sequential import loop with its success/failure    *)
(* accounting.                                                             *)
(*                                                                         *)
(* JavaScript strings that the code inspects (trim, toLowerCase, split,    *)
(* regex test, parseInt) are sequences of one-character strings.  Opaque   *)
(* identifiers of states and labels are plain strings.  A value that may   *)
(* be undefined is a record: None, or Some(v).                             *)
(***************************************************************************)
EXTENDS Integers, Sequences, FiniteSets, TLC

VARIABLES pc, gates, exitCode, teams, selection, targetTeamId, searched,
          statusMap, labelMap, results, idx, successCount, failCount,
          calls, inflight, output

vars == <<pc, gates, exitCode, teams, selection, targetTeamId, searched,
          statusMap, labelMap, results, idx, successCount, failCount,
          calls, inflight, output>>

(* Largest number of data rows the CSV stream delivers in a run. *)
MaxRows == 2

----------------------------------------------------------------------------
(* JavaScript values *)

None == [some |-> FALSE]
Some(v) == [some |-> TRUE, val |-> v]
NaN == [some |-> TRUE, nan |-> TRUE]

Rep(c, n) == [i \in 1..n |-> c]

UpperChars == <<"A","B","C","D","E","F","G","H","I","J","K","L","M",
                "N","O","P","Q","R","S","T","U","V","W","X","Y","Z">>
LowerChars == <<"a","b","c","d","e","f","g","h","i","j","k","l","m",
                "n","o","p","q","r","s","t","u","v","w","x","y","z">>
DigitChars == <<"0","1","2","3","4","5","6","7","8","9">>

IsWhitespace(c) == c \in {" ", "\t"}

ToLowerChar(c) ==
    IF \E i \in 1..26 : UpperChars[i] = c
    THEN LowerChars[CHOOSE i \in 1..26 : UpperChars[i] = c]
    ELSE c

(* String.prototype.toLowerCase *)
ToLowerCase(s) == [i \in 1..Len(s) |-> ToLowerChar(s[i])]

RECURSIVE TrimStart(_)
TrimStart(s) ==
    IF s # <<>> /\ IsWhitespace(Head(s)) THEN TrimStart(Tail(s)) ELSE s

RECURSIVE TrimEnd(_)
TrimEnd(s) ==
    IF s # <<>> /\ IsWhitespace(s[Len(s)])
    THEN TrimEnd(SubSeq(s, 1, Len(s) - 1)) ELSE s

(* String.prototype.trim *)
Trim(s) == TrimEnd(TrimStart(s))

(* String.prototype.split(','): the pieces between commas, empty ones kept *)
RECURSIVE SplitFrom(_, _)
SplitFrom(s, cur) ==
    IF s = <<>> THEN <<cur>>
    ELSE IF Head(s) = "," THEN <<cur>> \o SplitFrom(Tail(s), <<>>)
    ELSE SplitFrom(Tail(s), Append(cur, Head(s)))

SplitComma(s) == SplitFrom(s, <<>>)

IsDigit(c) == \E i \in 1..10 : DigitChars[i] = c
DigitValue(c) == (CHOOSE i \in 1..10 : DigitChars[i] = c) - 1

RECURSIVE DigitsValue(_, _)
DigitsValue(s, acc) ==
    IF s = <<>> \/ ~IsDigit(Head(s)) THEN acc
    ELSE DigitsValue(Tail(s), 10 * acc + DigitValue(Head(s)))

(* parseInt(s) without radix, for decimal input: leading whitespace is     *)
(* skipped, an optional sign is read, then the longest run of digits; NaN  *)
(* when there is no digit.                                                 *)
ParseInt(s) ==
    LET t == TrimStart(s)
        neg == t # <<>> /\ Head(t) = "-"
        u == IF t # <<>> /\ Head(t) \in {"-", "+"} THEN Tail(t) ELSE t
    IN IF u = <<>> \/ ~IsDigit(Head(u)) THEN NaN
       ELSE Some(IF neg THEN 0 - DigitsValue(u, 0) ELSE DigitsValue(u, 0))

IsHex(c) ==
    \/ IsDigit(c)
    \/ c \in {"a","b","c","d","e","f","A","B","C","D","E","F"}

(* uuidRegex.test(s): 8-4-4-4-12 hex digits joined by dashes, anchored at  *)
(* both ends; each \b sits between a hex digit and a dash and always holds *)
uuidRegexTest(s) ==
    /\ Len(s) = 36
    /\ \A i \in 1..36 :
         IF i \in {9, 14, 19, 24} THEN s[i] = "-" ELSE IsHex(s[i])

----------------------------------------------------------------------------
(* Plain objects used as lookups: const statusMap = {}, const labelMap = {} *)

ConstructorKey == <<"c","o","n","s","t","r","u","c","t","o","r">>
ProtoKey == <<"_","_","p","r","o","t","o","_","_">>

(* What a property read finds on Object.prototype when the object has no   *)
(* own property of that name.  After toLowerCase only these two inherited  *)
(* names can be asked for.                                                 *)
ObjectFunction == "[Function: Object]"
ObjectPrototype == "[Object: null prototype] {}"

EmptyObject == [k \in {} |-> ""]

(* map[key] = val; assigning a string to __proto__ creates no own property *)
JsSet(map, key, val) ==
    IF key = ProtoKey THEN map
    ELSE [k \in DOMAIN map \cup {key} |-> IF k = key THEN val ELSE map[k]]

(* map[key]: own property first, then the prototype chain, else undefined *)
JsGet(map, key) ==
    IF key \in DOMAIN map THEN Some(map[key])
    ELSE IF key = ConstructorKey THEN Some(ObjectFunction)
    ELSE IF key = ProtoKey THEN Some(ObjectPrototype)
    ELSE None

(* Truthiness of a looked-up value: undefined and "" are falsy *)
Truthy(v) == v.some /\ v.val # ""

(* nodes.forEach(n => { map[n.name.toLowerCase()] = n.id }) *)
RECURSIVE BuildMapFrom(_, _)
BuildMapFrom(nodes, map) ==
    IF nodes = <<>> THEN map
    ELSE BuildMapFrom(Tail(nodes),
                      JsSet(map, ToLowerCase(Head(nodes).name), Head(nodes).id))

BuildMap(nodes) == BuildMapFrom(nodes, EmptyObject)

----------------------------------------------------------------------------
(* Inputs supplied by the collaborators *)

Uuid(c) == Rep(c, 8) \o <<"-">> \o Rep(c, 4) \o <<"-">> \o Rep(c, 4)
           \o <<"-">> \o Rep(c, 4) \o <<"-">> \o Rep(c, 12)

TeamCore == [id |-> Uuid("a"), key |-> <<"E">>, name |-> <<"C","o">>]
TeamOps  == [id |-> Uuid("B"), key |-> <<"O">>, name |-> <<"E">>]
TeamX    == [id |-> Uuid("1"), key |-> <<"X">>, name |-> Uuid("c")]

(* Team lists the workspace may return, the empty one included.  TeamOps'  *)
(* name collides with TeamCore's key, and TeamX is named like an id.       *)
TeamLists == { <<>>, <<TeamCore, TeamOps, TeamX>>, <<TeamOps, TeamCore, TeamX>> }

(* `[${t.key}] ${t.name}` *)
ChoiceName(t) == <<"[">> \o t.key \o <<"]", " ">> \o t.name

(* Values the team prompt may hand back *)
Selections ==
    { TeamCore.id, <<"E">>, ChoiceName(TeamOps), Uuid("c"),
      Uuid("f"), Uuid("g"), Uuid("a") \o <<"a">>, <<"e">> }

WorkflowStateLists ==
    { <<>>,
      << [name |-> <<"T","o","d","o">>, id |-> "S1"], [name |-> <<"D","o","n","e">>, id |-> "S2"],
         [name |-> <<"T","O","D","O">>, id |-> "S3"] >> }

LabelLists ==
    { << [name |-> <<"b","u","g">>, id |-> "L1"] >>,
      << [name |-> <<"B","u","g">>, id |-> "L1"], [name |-> <<"u","x">>, id |-> "L2"],
         [name |-> <<"B","U","G">>, id |-> "L3"] >> }

(* Records the CSV parser may emit: a column missing from the file is      *)
(* missing from the record, an empty cell is the empty string.             *)
RowSet ==
    { [Title |-> <<"F","i","x">>, Priority |-> <<"1">>],
      [Title |-> <<>>, Status |-> <<"U","n","k","n","o","w","n">>, Labels |-> <<",">>, Priority |-> <<"-","2">>],
      [Labels |-> <<"b","u","g",","," ","u","r","g","e","n","t">>],
      [Title |-> <<"T">>, Description |-> <<"d">>, Estimate |-> <<" ","3","h">>,
       Status |-> <<" ","T","o","D","o"," ">>,
       Labels |-> <<"B","u","g",",","z","z",","," ","B","U","G"," ",",","u","x">>],
      [Title |-> <<" ">>, Priority |-> <<"x">>, Estimate |-> <<"x">>,
       Status |-> ConstructorKey,
       Labels |-> <<"u","x",",">> \o ConstructorKey \o <<",">> \o ProtoKey] }

----------------------------------------------------------------------------
(* Row normalisation: the body of the for-of loop up to the creation call *)

Present(row, col) == col \in DOMAIN row /\ row[col] # <<>>

UntitledIssue == <<"U","n","t","i","t","l","e","d"," ","I","s","s","u","e">>

RowTitleMutPassThrough(row) == IF "Title" \in DOMAIN row THEN row["Title"] ELSE UntitledIssue

(* row['Title'] || 'Untitled Issue' *)
RowTitle(row) == IF Present(row, "Title") THEN row["Title"] ELSE UntitledIssue

(* row['Description'] || '' *)
RowDescription(row) ==
    IF Present(row, "Description") THEN row["Description"] ELSE <<>>

(* let priority = 0; if (row['Priority']) priority = parseInt(..) || 0 *)
RowPriority(row) ==
    IF Present(row, "Priority")
    THEN LET p == ParseInt(row["Priority"])
         IN IF p = NaN THEN 0 ELSE p.val
    ELSE 0

(* let estimate = undefined; if (row['Estimate']) estimate = parseInt(..) *)
RowEstimate(row) ==
    IF Present(row, "Estimate") THEN ParseInt(row["Estimate"]) ELSE None

(* if (row['Status']) stateId = statusMap[row['Status'].trim().toLowerCase()] *)
RowStateId(row, sMap) ==
    IF Present(row, "Status")
    THEN JsGet(sMap, ToLowerCase(Trim(row["Status"])))
    ELSE None

(* row['Labels'].split(',').map(s => s.trim().toLowerCase()) *)
LabelNames(s) ==
    LET parts == SplitComma(s)
    IN [i \in 1..Len(parts) |-> ToLowerCase(Trim(parts[i]))]

(* labelNames.forEach(name => { if (labelMap[name]) labelIds.push(..) }) *)
RECURSIVE PushLabels(_, _, _)
PushLabels(names, lMap, ids) ==
    IF names = <<>> THEN ids
    ELSE PushLabels(Tail(names), lMap,
                    IF Truthy(JsGet(lMap, Head(names)))
                    THEN Append(ids, JsGet(lMap, Head(names)).val)
                    ELSE ids)

RowLabelIds(row, lMap) ==
    IF Present(row, "Labels")
    THEN PushLabels(LabelNames(row["Labels"]), lMap, <<>>)
    ELSE <<>>

(* labelIds.length > 0 ? labelIds : undefined *)
LabelIdsArg(ids) == IF Len(ids) > 0 THEN Some(ids) ELSE None

(* The object passed to linearClient.createIssue *)
IssueRequest(row, teamId, sMap, lMap) ==
    [ teamId      |-> teamId,
      title       |-> RowTitle(row),
      description |-> RowDescription(row),
      priority    |-> RowPriority(row),
      estimate    |-> RowEstimate(row),
      stateId     |-> RowStateId(row, sMap),
      labelIds    |-> LabelIdsArg(RowLabelIds(row, lMap)) ]

(* teams.nodes.find(t => t.name === sel || t.key === sel || `[key] name` === sel) *)
TeamMatches(t, sel) == t.name = sel \/ t.key = sel \/ ChoiceName(t) = sel

FindTeamMutLast(ts, sel) ==
    IF \E i \in 1..Len(ts) : TeamMatches(ts[i], sel)
    THEN Some(ts[CHOOSE i \in 1..Len(ts) :
                    /\ TeamMatches(ts[i], sel)
                    /\ \A j \in 1..Len(ts) : TeamMatches(ts[j], sel) => j <= i])
    ELSE None

FindTeam(ts, sel) ==
    IF \E i \in 1..Len(ts) : TeamMatches(ts[i], sel)
    THEN Some(ts[CHOOSE i \in 1..Len(ts) :
                    /\ TeamMatches(ts[i], sel)
                    /\ \A j \in 1..(i - 1) : ~TeamMatches(ts[j], sel)])
    ELSE None

----------------------------------------------------------------------------
(* The program *)

SetupGates == <<"connect", "csv", "teams", "team", "states", "labels", "confirm">>

Init ==
    /\ pc = "connect"
    /\ gates = <<>>
    /\ exitCode = None
    /\ teams = <<>>
    /\ selection = <<>>
    /\ targetTeamId = <<>>
    /\ searched = FALSE
    /\ statusMap = EmptyObject
    /\ labelMap = EmptyObject
    /\ results = <<>>
    /\ idx = 0
    /\ successCount = 0
    /\ failCount = 0
    /\ calls = <<>>
    /\ inflight = 0
    /\ output = <<>>

(* process.exit(code) *)
Exit(code) == pc' = "exited" /\ exitCode' = Some(code)

(* An awaited collaborator call rejects outside any try: main() rejects    *)
(* and main().catch(console.error) prints the error.                       *)
Reject == pc' = "rejected" /\ UNCHANGED exitCode

Pass(gate, next) == pc' = next /\ gates' = Append(gates, gate) /\ UNCHANGED exitCode

(* try { viewer = await linearClient.viewer } catch { process.exit(1) } *)
Connect ==
    /\ pc = "connect"
    /\ \E ok \in BOOLEAN :
         IF ok THEN Pass("connect", "scan")
         ELSE Exit(1) /\ UNCHANGED gates
    /\ UNCHANGED <<teams, selection, targetTeamId, searched, statusMap, labelMap,
                   results, idx, successCount, failCount, calls, inflight,
                   output>>

(* glob.sync('**/*.csv'); if (csvFiles.length === 0) process.exit(1);      *)
(* then the file prompt                                                    *)
ScanCsv ==
    /\ pc = "scan"
    /\ \E nFiles \in 0..1 :
         IF nFiles = 0 THEN Exit(1) /\ UNCHANGED gates
         ELSE Pass("csv", "fetchTeams")
    /\ UNCHANGED <<teams, selection, targetTeamId, searched, statusMap, labelMap,
                   results, idx, successCount, failCount, calls, inflight,
                   output>>

(* const teams = await linearClient.teams(); empty list exits; then the    *)
(* team prompt hands back teamSelection.teamId                             *)
FetchTeams ==
    /\ pc = "fetchTeams"
    /\ \/ /\ Reject
          /\ UNCHANGED <<gates, teams, selection>>
       \/ \E ts \in TeamLists :
            /\ teams' = ts
            /\ IF Len(ts) = 0
               THEN Exit(1) /\ UNCHANGED <<gates, selection>>
               ELSE /\ Pass("teams", "resolve")
                    /\ \E sel \in Selections : selection' = sel
    /\ UNCHANGED <<targetTeamId, searched, statusMap, labelMap,
                   results, idx, successCount, failCount, calls, inflight,
                   output>>

(* if (!uuidRegex.test(targetTeamId)) { find by name/key/"[key] name";     *)
(* matched ? matchedTeam.id : process.exit(1) } else use it as it is       *)
ResolveTeamMutAlwaysSearch ==
    /\ pc = "resolve"
    /\ LET matchedTeam == FindTeam(teams, selection)
       IN /\ searched' = TRUE
          /\ IF matchedTeam.some
             THEN /\ targetTeamId' = matchedTeam.val.id
                  /\ Pass("team", "fetchStates")
             ELSE IF uuidRegexTest(selection)
             THEN /\ targetTeamId' = selection
                  /\ Pass("team", "fetchStates")
             ELSE /\ targetTeamId' = selection
                  /\ Exit(1)
                  /\ UNCHANGED gates
    /\ UNCHANGED <<teams, selection, statusMap, labelMap,
                   results, idx, successCount, failCount, calls, inflight,
                   output>>

ResolveTeam ==
    /\ pc = "resolve"
    /\ IF ~uuidRegexTest(selection)
       THEN /\ searched' = TRUE
            /\ LET matchedTeam == FindTeam(teams, selection)
               IN IF matchedTeam.some
                  THEN /\ targetTeamId' = matchedTeam.val.id
                       /\ Pass("team", "fetchStates")
                  ELSE /\ targetTeamId' = selection
                       /\ Exit(1)
                       /\ UNCHANGED gates
       ELSE /\ targetTeamId' = selection
            /\ Pass("team", "fetchStates")
            /\ UNCHANGED searched
    /\ UNCHANGED <<teams, selection, statusMap, labelMap,
                   results, idx, successCount, failCount, calls, inflight,
                   output>>

(* const workflowStates = await linearClient.workflowStates({filter});     *)
(* statusMap[state.name.toLowerCase()] = state.id for each node            *)
FetchStates ==
    /\ pc = "fetchStates"
    /\ \/ Reject /\ UNCHANGED <<gates, statusMap>>
       \/ \E nodes \in WorkflowStateLists :
            /\ statusMap' = BuildMap(nodes)
            /\ Pass("states", "fetchLabels")
    /\ UNCHANGED <<teams, selection, targetTeamId, searched, labelMap,
                   results, idx, successCount, failCount, calls, inflight,
                   output>>

(* const issueLabels = await linearClient.issueLabels();                   *)
(* labelMap[label.name.toLowerCase()] = label.id for each node             *)
FetchLabels ==
    /\ pc = "fetchLabels"
    /\ \/ Reject /\ UNCHANGED <<gates, labelMap>>
       \/ \E nodes \in LabelLists :
            /\ labelMap' = BuildMap(nodes)
            /\ Pass("labels", "confirm")
    /\ UNCHANGED <<teams, selection, targetTeamId, searched, statusMap,
                   results, idx, successCount, failCount, calls, inflight,
                   output>>

(* if (!confirm.go) process.exit(0); then the read stream is opened *)
ConfirmMutIgnoreAnswer ==
    /\ pc = "confirm"
    /\ \E go \in BOOLEAN : Pass(IF go THEN "confirm" ELSE "declined", "read")
    /\ UNCHANGED <<teams, selection, targetTeamId, searched, statusMap, labelMap,
                   results, idx, successCount, failCount, calls, inflight,
                   output>>

Confirm ==
    /\ pc = "confirm"
    /\ \E go \in BOOLEAN :
         IF go THEN Pass("confirm", "read")
         ELSE Exit(0) /\ UNCHANGED gates
    /\ UNCHANGED <<teams, selection, targetTeamId, searched, statusMap, labelMap,
                   results, idx, successCount, failCount, calls, inflight,
                   output>>

(* .on('data', (data) => results.push(data)) *)
CsvData ==
    /\ pc = "read"
    /\ Len(results) < MaxRows
    /\ \E data \in RowSet : results' = Append(results, data)
    /\ UNCHANGED <<pc, gates, exitCode, teams, selection, targetTeamId, searched,
                   statusMap, labelMap, idx, successCount, failCount, calls,
                   inflight, output>>

(* The stream emits 'error' (unreadable file): no handler is registered,   *)
(* the process dies on the uncaught error and 'end' never fires.           *)
CsvError ==
    /\ pc = "read"
    /\ pc' = "crashed"
    /\ UNCHANGED <<gates, exitCode, teams, selection, targetTeamId, searched,
                   statusMap, labelMap, results, idx, successCount, failCount,
                   calls, inflight, output>>

(* .on('end', async () => { let successCount = 0; let failCount = 0;       *)
(* for (const row of results) ... }): enters the loop before the first row *)
CsvEnd ==
    /\ pc = "read"
    /\ pc' = "loop"
    /\ idx' = 1
    /\ successCount' = 0
    /\ failCount' = 0
    /\ UNCHANGED <<gates, exitCode, teams, selection, targetTeamId, searched,
                   statusMap, labelMap, results, calls, inflight, output>>

(* One loop iteration up to the first await: the row is normalised and     *)
(* linearClient.createIssue is called with the request                     *)
NextRowAfter(i) == i + 1

StartRowMutTwoAtOnce ==
    /\ pc \in {"loop", "awaitCreate"}
    /\ idx + inflight <= Len(results)
    /\ calls' = Append(calls, [row |-> idx + inflight,
                                req |-> IssueRequest(results[idx + inflight],
                                                     targetTeamId, statusMap, labelMap)])
    /\ inflight' = inflight + 1
    /\ pc' = "awaitCreate"
    /\ UNCHANGED <<gates, exitCode, teams, selection, targetTeamId, searched,
                   statusMap, labelMap, results, idx, successCount, failCount,
                   output>>

StartRow ==
    /\ pc = "loop"
    /\ idx <= Len(results)
    /\ calls' = Append(calls, [row |-> idx,
                                req |-> IssueRequest(results[idx], targetTeamId,
                                                     statusMap, labelMap)])
    /\ inflight' = inflight + 1
    /\ pc' = "awaitCreate"
    /\ UNCHANGED <<gates, exitCode, teams, selection, targetTeamId, searched,
                   statusMap, labelMap, results, idx, successCount, failCount,
                   output>>

Report(kind) == [kind |-> kind, row |-> idx, title |-> RowTitle(results[idx])]

CatchErrMutAbort ==
    /\ output' = Append(output, Report("failed"))
    /\ failCount' = failCount + 1
    /\ idx' = Len(results) + 1
    /\ pc' = "loop"
    /\ UNCHANGED successCount

(* catch (err) { console.error(`Failed: ...`); failCount++ } and on to the *)
(* next row                                                                *)
CatchErr ==
    /\ output' = Append(output, Report("failed"))
    /\ failCount' = failCount + 1
    /\ idx' = NextRowAfter(idx)
    /\ pc' = "loop"
    /\ UNCHANGED successCount

(* await linearClient.createIssue(...) rejects: the catch block runs *)
CreateRejects ==
    /\ pc = "awaitCreate"
    /\ inflight' = inflight - 1
    /\ CatchErr
    /\ UNCHANGED <<gates, exitCode, teams, selection, targetTeamId, searched,
                   statusMap, labelMap, results, calls>>

(* await linearClient.createIssue(...) resolves with the payload; the code *)
(* goes on to await issuePayload.issue                                     *)
CreateResolves ==
    /\ pc = "awaitCreate"
    /\ inflight' = inflight - 1
    /\ pc' = "awaitIssue"
    /\ UNCHANGED <<gates, exitCode, teams, selection, targetTeamId, searched,
                   statusMap, labelMap, results, idx, successCount, failCount,
                   calls, output>>

(* const issue = await issuePayload.issue resolves: with the issue, the    *)
(* URL is logged; without it, the payload's id is logged; successCount++   *)
CountSuccessMutTwice(n) == n + 2

CountSuccess(n) == n + 1

IssueRead ==
    /\ pc = "awaitIssue"
    /\ \E issue \in BOOLEAN :
         output' = Append(output, Report(IF issue THEN "createdUrl" ELSE "createdId"))
    /\ successCount' = CountSuccess(successCount)
    /\ idx' = NextRowAfter(idx)
    /\ pc' = "loop"
    /\ UNCHANGED <<gates, exitCode, teams, selection, targetTeamId, searched,
                   statusMap, labelMap, results, failCount, calls, inflight>>

(* await issuePayload.issue rejects (the fetch of the created issue        *)
(* fails): the throw lands in the same catch block                         *)
IssueRejects ==
    /\ pc = "awaitIssue"
    /\ CatchErr
    /\ UNCHANGED <<gates, exitCode, teams, selection, targetTeamId, searched,
                   statusMap, labelMap, results, calls, inflight>>

(* The loop is exhausted: console.log(`Done! Success: .., Failed: ..`) *)
Tally ==
    /\ pc = "loop"
    /\ idx > Len(results)
    /\ output' = Append(output, [kind |-> "done", row |-> successCount,
                                 title |-> <<>>])
    /\ pc' = "done"
    /\ UNCHANGED <<gates, exitCode, teams, selection, targetTeamId, searched,
                   statusMap, labelMap, results, idx, successCount, failCount,
                   calls, inflight>>

Next ==
    \/ Connect
    \/ ScanCsv
    \/ FetchTeams
    \/ ResolveTeam
    \/ FetchStates
    \/ FetchLabels
    \/ Confirm
    \/ CsvData
    \/ CsvError
    \/ CsvEnd
    \/ StartRow
    \/ CreateRejects
    \/ CreateResolves
    \/ IssueRead
    \/ IssueRejects
    \/ Tally

Spec == Init /\ [][Next]_vars

----------------------------------------------------------------------------
(* Properties *)

InLoop == pc \in {"loop", "awaitCreate", "awaitIssue", "done"}

(* Per-row outcome lines printed so far (the final tally line excluded) *)
RowReports == SelectSeq(output, LAMBDA o : o.kind # "done")

LastReport == output[Len(output)]

FailureReported == Len(output') = Len(output) + 1 /\ output'[Len(output')].kind = "failed"

(* C1: after each loop iteration successCount + failCount equals the       *)
(* number of rows processed so far, and after the full run it equals the   *)
(* number of parsed rows, whatever the per-row outcomes were.              *)
C1_CountsSumToRows ==
    /\ InLoop => successCount + failCount = idx - 1
    /\ InLoop => successCount + failCount = Len(RowReports)
    /\ pc = "done" => successCount + failCount = Len(results)

C1_Witness ==
    /\ pc = "done"
    /\ Len(results) = 2
    /\ successCount = 1
    /\ failCount = 1
    /\ \E i \in 1..Len(output) : output[i].kind = "createdId"

(* C2: a row whose creation fails adds exactly one to failCount, leaves    *)
(* successCount alone and hands over to the next row; at the final tally   *)
(* every row has had exactly one creation attempt, in row order.           *)
C2_FailureCountedAndLoopContinues ==
    /\ [][FailureReported =>
            /\ failCount' = failCount + 1
            /\ successCount' = successCount
            /\ idx' = idx + 1
            /\ pc' = "loop"]_vars
    /\ [](pc = "done" =>
            /\ Len(calls) = Len(results)
            /\ \A i \in 1..Len(calls) : calls[i].row = i
            /\ LastReport.kind = "done")

C2_Witness ==
    /\ pc = "done"
    /\ Len(results) = 2
    /\ Len(calls) = 2
    /\ output[1].kind = "failed"
    /\ output[2].kind = "createdUrl"

(* C3: once createIssue has succeeded for a row, the row is counted as a   *)
(* success (successCount + 1, failCount unchanged) and reported as         *)
(* created, with the URL or, when the detail is unavailable, with the id.  *)
C3_CreatedRowCountsAsSuccess ==
    [][pc = "awaitIssue" =>
         /\ successCount' = successCount + 1
         /\ failCount' = failCount
         /\ output'[Len(output')].kind \in {"createdUrl", "createdId"}]_vars

(* C4: rows are imported one at a time in CSV order: at most one creation  *)
(* call is in flight, the call for a row is issued only after every        *)
(* earlier row's outcome was reported, reports come in row order, and no   *)
(* call is made before the stream has ended (results is final by then).    *)
C4_StrictlySequential ==
    /\ [](/\ inflight <= 1
          /\ \A i \in 1..Len(calls) : calls[i].row = i
          /\ \A i \in 1..Len(RowReports) : RowReports[i].row = i
          /\ Len(calls) - Len(RowReports) \in {0, 1}
          /\ (Len(calls) > Len(RowReports)) <=> (pc \in {"awaitCreate", "awaitIssue"})
          /\ (calls # <<>> => InLoop))
    /\ [][InLoop => results' = results]_vars

C4_Witness ==
    /\ pc = "awaitCreate"
    /\ inflight = 1
    /\ Len(calls) = 2
    /\ Len(RowReports) = 1
    /\ results[1] # results[2]

(* The selection equals the team's name, its key, or "[key] name" *)
SelectionNames(t, sel) ==
    \/ sel = t.name
    \/ sel = t.key
    \/ sel = <<"[">> \o t.key \o <<"]", " ">> \o t.name

ResolverRan == pc # "resolve" /\ Len(gates) >= 3

(* C5: a selection that is not identifier-shaped resolves to the id of the *)
(* first team, in list order, that it names; when it names no team the run *)
(* ends with exit code 1 and no team id is used.                           *)
C5_NameSelectionResolvesToFirstMatch ==
    (ResolverRan /\ searched) =>
        IF \E i \in 1..Len(teams) : SelectionNames(teams[i], selection)
        THEN /\ \E i \in 1..Len(teams) :
                  /\ SelectionNames(teams[i], selection)
                  /\ \A j \in 1..(i - 1) : ~SelectionNames(teams[j], selection)
                  /\ targetTeamId = teams[i].id
             /\ Len(gates) >= 4
             /\ gates[4] = "team"
        ELSE /\ pc = "exited"
             /\ exitCode = Some(1)
             /\ Len(gates) = 3
             /\ calls = <<>>

C5_Witness ==
    /\ ResolverRan
    /\ searched
    /\ selection = <<"E">>
    /\ teams[1] = TeamOps
    /\ teams[2] = TeamCore
    /\ targetTeamId = TeamOps.id
    /\ pc = "fetchStates"

HexDigits == {"0","1","2","3","4","5","6","7","8","9",
              "a","b","c","d","e","f","A","B","C","D","E","F"}

(* 8-4-4-4-12 hex digits, either case *)
IdentifierShaped(s) ==
    /\ Len(s) = 36
    /\ \A i \in {9, 14, 19, 24} : s[i] = "-"
    /\ \A i \in (1..36) \ {9, 14, 19, 24} : s[i] \in HexDigits

(* C6: an identifier-shaped selection becomes the team id unchanged and    *)
(* the team list is not searched, also when it is no team's id or equals   *)
(* some team's name; any other selection is searched for.                  *)
C6_IdentifierSelectionUsedAsIs ==
    ResolverRan =>
        IF IdentifierShaped(selection)
        THEN /\ targetTeamId = selection
             /\ ~searched
             /\ Len(gates) >= 4
             /\ gates[4] = "team"
        ELSE searched

C6_Witness ==
    /\ ResolverRan
    /\ selection = TeamX.name
    /\ targetTeamId = TeamX.name
    /\ targetTeamId # TeamX.id
    /\ ~searched
    /\ pc = "fetchStates"

(* The ids of the tokens that are keys of the lookup, in token order *)
RECURSIVE RecognizedIds(_, _)
RecognizedIds(names, lookup) ==
    IF names = <<>> THEN <<>>
    ELSE (IF Head(names) \in DOMAIN lookup THEN <<lookup[Head(names)]>> ELSE <<>>)
         \o RecognizedIds(Tail(names), lookup)

(* C7: labelIds of every request is the sequence of lookup values of the   *)
(* row's comma-split, trimmed, lowercased label tokens that are keys of    *)
(* the label lookup, in order, duplicates kept, all other tokens dropped;  *)
(* absent when that sequence is empty or the row has no Labels.            *)
C7_LabelIdsAreRecognizedTokens ==
    \A i \in 1..Len(calls) :
        LET row == results[calls[i].row]
            ids == IF "Labels" \in DOMAIN row
                   THEN RecognizedIds(LabelNames(row["Labels"]), labelMap)
                   ELSE <<>>
        IN calls[i].req.labelIds = IF ids = <<>> THEN None ELSE Some(ids)

(* C8: stateId of every request whose row has a Status is the lookup value *)
(* of the trimmed, lowercased Status when that is a key of the status      *)
(* lookup, and is absent when it is not.                                   *)
C8_StateIdFromLookupOrAbsent ==
    \A i \in 1..Len(calls) :
        LET row == results[calls[i].row]
        IN Present(row, "Status") =>
             LET k == ToLowerCase(Trim(row["Status"]))
             IN calls[i].req.stateId =
                  IF k \in DOMAIN statusMap THEN Some(statusMap[k]) ELSE None

(* C9: the title of every request is non-empty: the row's Title when it    *)
(* has a non-empty one, "Untitled Issue" otherwise; and no row is skipped. *)
C9_TitleDefaulted ==
    /\ \A i \in 1..Len(calls) :
         LET row == results[calls[i].row]
             title == calls[i].req.title
         IN /\ title # <<>>
            /\ IF "Title" \in DOMAIN row /\ row["Title"] # <<>>
               THEN title = row["Title"]
               ELSE title = UntitledIssue
    /\ \A i \in 1..Len(calls) : calls[i].row = i
    /\ pc = "done" => Len(calls) = Len(results)

C9_Witness ==
    /\ pc = "done"
    /\ Len(calls) = 2
    /\ "Title" \in DOMAIN results[1] /\ results[1]["Title"] = <<>>
    /\ calls[1].req.title = UntitledIssue
    /\ "Title" \notin DOMAIN results[2]
    /\ calls[2].req.title = UntitledIssue

IsPrefix(s, t) == Len(s) <= Len(t) /\ \A i \in 1..Len(s) : s[i] = t[i]

(* C10: a creation call is made only after every setup gate has passed, in *)
(* order; a run that exits or fails during setup, or whose confirmation is *)
(* declined, makes no creation call; every call carries the resolved team  *)
(* id.                                                                     *)
C10_NoCreationBeforeGates ==
    /\ IsPrefix(gates, SetupGates)
    /\ calls # <<>> => gates = SetupGates
    /\ InLoop => gates = SetupGates
    /\ pc \in {"exited", "rejected", "crashed"} => calls = <<>>
    /\ pc = "exited" => exitCode \in {Some(0), Some(1)}
    /\ exitCode = Some(0) => gates = SubSeq(SetupGates, 1, 6)
    /\ \A i \in 1..Len(calls) : calls[i].req.teamId = targetTeamId

C10_Witness ==
    /\ Len(calls) = 2
    /\ gates = SetupGates
    /\ searched
    /\ calls[1].req.teamId = TeamCore.id
    /\ calls[2].req.teamId = TeamCore.id

====
